---- MODULE Spec2Model ----
(***************************************************************************)
(* Model of src/index.js: the Polymarket WebSocket listener.  One feed     *)
(* socket with a bounded reconnect policy, a periodic reconciliation of    *)
(* the local subscription set against the Redis set "ws-subscriptions",    *)
(* and message handlers that persist book, trade and price events through  *)
(* the Upstash REST store.                                                 *)
(*                                                                         *)
(* The runtime is a single-threaded event loop: every action below is one  *)
(* callback, or the part of an async function between two awaits.          *)
(***************************************************************************)
EXTENDS Naturals, Integers, Sequences, FiniteSets, Bags, TLC

\* ------------------------------------------------------------------ bounds
\* Tokens that occur in the control set and in feed frames.
Tokens == {"A", "B"}
\* connect() calls explored by the connection-lifecycle specification.
MaxConnects == 13
\* connect() calls explored by the full specification.
MaxSockets == 3
\* checkSubscriptions runs whose read is outstanding at the same time.
MaxPolls == 2

\* Inbound frames explored by the feed, trade and book specifications.
MaxFeedMsgs == 1
MaxTrades == 3
MaxBookMsgs == 2
\* Levels a book side carries beyond the ten that are kept.
MaxExtra == 1

\* --------------------------------------------------------- program constants
MAX_RECONNECT_ATTEMPTS == 10
\* slice(0, 10)
TOP_LEVELS == 10
\* redisLTrim(key, 0, 99)
TRIM_STOP == 99
\* redisExpire(key, 60)
TTL_SECONDS == 60

VARIABLES
    mainPc,             \* "loading" | "running" | "exited"
    control,            \* the Redis set ws-subscriptions (externally maintained)
    ws,                 \* the global ws: 0 is null, else an index of socks
    socks,              \* readyState of every socket created so far
    reconnectAttempts,
    timeouts,           \* pending setTimeout(connect, RECONNECT_DELAY)
    heartbeats,         \* live setInterval heartbeat timers
    subscriptions,      \* the global Set subscriptions
    polls,              \* bag of checkSubscriptions runs awaiting redisSMembers
    connFuel,           \* connect() calls still to be explored
    \* history of the last callback that ran
    lastOp,             \* its name
    calls,              \* bag of tokens subscribe() was invoked with
    frames,             \* bag of frames it handed to ws.send / ws.ping
    sentOn,             \* tokens with a subscribe frame sent on socket ws
    run,                \* the last completed checkSubscriptions diff
    prevDesired,        \* {} or {desired set of the diff before run}
    opened,             \* some socket has opened since startup
    attempts,           \* connect() calls since startup / the last open
    failures,           \* of those, the ones closed without opening
    history,            \* what is recorded: "prev" (prevDesired), "start" (a poll's start),
                        \* "read" (whether a read that returned carried a result)
    pollCap,            \* outstanding checkSubscriptions reads explored
    \* the feed's frames and the store
    msgFuel,            \* inbound frames still to be explored
    msgSeq,             \* inbound frames received so far
    lastEvent,          \* the last inbound frame
    lastActive,         \* whether its asset_id was in subscriptions on receipt
    handlers,           \* message handlers awaiting a store round trip
    orderbook,          \* the hashes orderbook:{token}
    price,              \* the hashes price:{token}
    trades,             \* the lists trades:{token}
    untrimmed,          \* per token, LPUSHes applied since the last applied LTRIM
    pushLog,            \* per token, the entries of the applied LPUSHes, in order
    faulted             \* some store round trip was not applied or did not return

connVars == <<ws, socks, reconnectAttempts, timeouts, heartbeats, connFuel>>
histVars == <<lastOp, calls, frames, sentOn, run, prevDesired, opened, attempts, failures>>
storeVars == <<orderbook, price, trades, untrimmed, pushLog, faulted>>
feedVars == <<history, pollCap, msgFuel, msgSeq, lastEvent, lastActive, handlers, storeVars>>
\* What the process holds and does (the control set belongs to other clients).
procVars == <<mainPc, subscriptions, polls, connVars, histVars, feedVars>>
vars == <<control, procVars>>

\* ------------------------------------------------------------------ frames
MarketFrame(tokenId) == [type |-> "market", assets_ids |-> <<tokenId>>]
PingFrame == [type |-> "ping", assets_ids |-> <<>>]

One(x) == SetToBag({x})

\* ws && ws.readyState === WebSocket.OPEN, for socket handle w and states ss
IsOpen(w, ss) == w # 0 /\ ss[w] = "OPEN"

\* subscribe without its test of the socket.
subscribeNoTest(tokenId, w, ss) == One(MarketFrame(tokenId))

\* subscribe(tokenId): the frames it sends
subscribe(tokenId, w, ss) ==
    IF IsOpen(w, ss) THEN One(MarketFrame(tokenId)) ELSE EmptyBag

\* subscriptions.forEach(tokenId => subscribe(tokenId))
RECURSIVE SubscribeAll(_, _, _)
SubscribeAll(S, w, ss) ==
    IF S = {} THEN EmptyBag
    ELSE LET t == CHOOSE x \in S : TRUE
         IN  subscribe(t, w, ss) (+) SubscribeAll(S \ {t}, w, ss)

\* The tokens of the market frames in a bag of frames.
FrameTokens(b) == {t \in Tokens : BagIn(MarketFrame(t), b)}

NoRun == [done |-> FALSE, read |-> "ok", desired |-> {}, before |-> {}, start |-> {},
          added |-> {}, removed |-> {}]

\* ----------------------------------------------------------- feed events
\* Prices and sizes are fixed-point decimals counted in units of 0.0001;
\* NoNum stands for a field the frame does not carry.
NoNum == 0 - 1

Frame(type, token, bids, asks, p) ==
    [event_type |-> type, asset_id |-> token, bids |-> bids, asks |-> asks,
     side |-> "BUY", price |-> p, size |-> IF type = "last_trade_price" THEN 50000 ELSE NoNum]

\* One side of a book frame: n levels, the first at price p.
Levels(p, n) == [i \in 1..n |-> [price |-> p + (i - 1), size |-> 10000 * i]]

NoEvent == Frame("none", "", <<>>, <<>>, NoNum)

\* parseFloat(x) || 0
parseFloatOr0(x) == IF x = NoNum THEN 0 ELSE x

Min(a, b) == IF a <= b THEN a ELSE b

\* levels?.slice(0, 10) || []
slice(levels, n) == SubSeq(levels, 1, Min(Len(levels), n))

\* The price of the last level instead of the first.
bestLast(levels) == IF Len(levels) = 0 THEN 0 ELSE parseFloatOr0(levels[Len(levels)].price)

\* parseFloat(levels[0]?.price) || 0
best(levels) == IF Len(levels) = 0 THEN 0 ELSE parseFloatOr0(levels[1].price)

\* x.toFixed(4) of x = half / 2, half counted in units of 0.0001: a multiple of
\* 0.0001 is kept; a value halfway between two multiples goes to the neighbour
\* nearer to the binary double that stands for it, which is either of them.
toFixed4(half) ==
    IF half % 2 = 0 THEN {half \div 2} ELSE {(half - 1) \div 2, (half + 1) \div 2}

\* The fields saveOrderbook computes before its first await; mid is the
\* string mid.toFixed(4), one of toFixed4(bestBid + bestAsk).
saveOrderbook(msg, mid) ==
    LET bids == slice(msg.bids, TOP_LEVELS)
        asks == slice(msg.asks, TOP_LEVELS)
        bestBid == best(bids)
        bestAsk == best(asks)
    IN  [ob |-> [bids |-> bids, asks |-> asks, mid |-> mid, spread |-> bestAsk - bestBid],
         pr |-> [bid |-> bestBid, ask |-> bestAsk, mid |-> mid, last |-> mid]]

\* The fields the price_change branch writes: msg.price || '0'
priceChange(msg) ==
    LET p == IF msg.price = NoNum THEN 0 ELSE msg.price
    IN  [bid |-> p, ask |-> p, mid |-> p, last |-> p]

\* The entry saveTrade serialises; Date.now() is the order of receipt.  The
\* parseFloat of a field the frame does not carry is NaN, which JSON.stringify
\* writes as null: NoNum.
saveTrade(msg, now) ==
    [side |-> msg.side, price |-> msg.price, size |-> msg.size, timestamp |-> now]

NoOb == [bids |-> <<>>, asks |-> <<>>, mid |-> 0, spread |-> 0]
NoPr == [bid |-> 0, ask |-> 0, mid |-> 0, last |-> 0]
NoEntry == [side |-> "", price |-> 0, size |-> 0, timestamp |-> 0]

\* ------------------------------------------------------------------ store
\* A hash key: whether it exists, its expiry (0: none), its fields, and
\* the handler (by, the frame ev) whose HSET wrote them.
NoHash(fields) == [exists |-> FALSE, ttl |-> 0, f |-> fields, by |-> 0, ev |-> NoEvent]

\* A store that drops the write of a frame older than the one the key holds.
redisHSetKeepsNewest(hash, fields, h) ==
    IF hash.exists /\ hash.by > h.id THEN hash
    ELSE [exists |-> TRUE, ttl |-> IF hash.exists THEN hash.ttl ELSE 0, f |-> fields,
          by |-> h.id, ev |-> h.ev]

\* HSET key field value ...: creates the key without expiry, keeps an expiry.
redisHSet(hash, fields, h) ==
    [exists |-> TRUE, ttl |-> IF hash.exists THEN hash.ttl ELSE 0, f |-> fields,
     by |-> h.id, ev |-> h.ev]

\* EXPIRE key seconds: no effect on a key that does not exist.
redisExpire(hash, seconds) == IF hash.exists THEN [hash EXCEPT !.ttl = seconds] ELSE hash

\* A push at the tail of the list instead of its head.
redisLPushTail(list, value) == Append(list, value)

\* LPUSH key value
redisLPush(list, value) == <<value>> \o list

\* A trim that keeps one entry beyond stop.
redisLTrimOneMore(list, start, stop) == SubSeq(list, start + 1, Min(Len(list), stop + 2))

\* LTRIM key start stop (both inclusive, from 0)
redisLTrim(list, start, stop) == SubSeq(list, start + 1, Min(Len(list), stop + 1))

\* The store round trips of each handler, in the order it awaits them.
Steps(type) ==
    CASE type = "book" -> <<"hset_orderbook", "expire_orderbook", "hset_price", "expire_price">>
      [] type = "last_trade_price" -> <<"lpush", "ltrim">>
      [] type = "price_change" -> <<"hset_price">>
      [] OTHER -> <<>>

\* An entry left in trades:{token} by an earlier run of the process.
OldEntry == [side |-> "SELL", price |-> 5000, size |-> 10000, timestamp |-> 0]

\* -------------------------------------------------------------------- init
InitCommon ==
    /\ mainPc = "loading"
    /\ control \in SUBSET Tokens
    /\ ws = 0
    /\ socks = <<>>
    /\ reconnectAttempts = 0
    /\ timeouts = 0
    /\ heartbeats = 0
    /\ subscriptions = {}
    /\ polls = EmptyBag
    /\ lastOp = "init"
    /\ calls = EmptyBag
    /\ frames = EmptyBag
    /\ sentOn = {}
    /\ run = NoRun
    /\ prevDesired = {}
    /\ opened = FALSE
    /\ attempts = 0
    /\ failures = 0
    /\ msgSeq = 0
    /\ lastEvent = NoEvent
    /\ lastActive = FALSE
    /\ handlers = {}
    /\ orderbook = [t \in Tokens |-> NoHash(NoOb)]
    /\ price = [t \in Tokens |-> NoHash(NoPr)]
    /\ untrimmed = [t \in Tokens |-> 0]
    /\ pushLog = [t \in Tokens |-> <<>>]
    /\ faulted = FALSE

EmptyLists == [t \in Tokens |-> <<>>]

\* Connection and reconciliation: a few sockets, no inbound frame.
Init ==
    /\ InitCommon
    /\ connFuel = MaxSockets
    /\ msgFuel = 0
    /\ history = {}
    /\ pollCap = MaxPolls
    /\ trades = EmptyLists

\* The connection alone, far enough to exhaust the reconnect policy.
InitConn ==
    /\ InitCommon
    /\ connFuel = MaxConnects
    /\ msgFuel = 0
    /\ history = {}
    /\ pollCap = MaxPolls
    /\ trades = EmptyLists

\* Reconciliation with the history of the diff before the last; one socket.
InitRecon ==
    /\ InitCommon
    /\ connFuel = 1
    /\ msgFuel = 0
    /\ history = {"prev"}
    /\ pollCap = MaxPolls
    /\ trades = EmptyLists

\* Reconciliation with the history of what each read returned; one socket.
InitRead ==
    /\ InitCommon
    /\ connFuel = 1
    /\ msgFuel = 0
    /\ history = {"read"}
    /\ pollCap = MaxPolls
    /\ trades = EmptyLists

\* Reconciliation while the feed is down: the process has run since startup
\* through ten failed attempts, its tenth reconnect is under way, and the
\* active set is what its polls have made it.  One more connect is explored.
InitLive ==
    /\ mainPc = "running"
    /\ control \in SUBSET Tokens
    /\ subscriptions \in SUBSET Tokens
    /\ socks = [i \in 1..(MAX_RECONNECT_ATTEMPTS + 1) |->
                   IF i <= MAX_RECONNECT_ATTEMPTS THEN "CLOSED" ELSE "CONNECTING"]
    /\ ws = MAX_RECONNECT_ATTEMPTS + 1
    /\ reconnectAttempts = MAX_RECONNECT_ATTEMPTS
    /\ timeouts = 0
    /\ heartbeats = MAX_RECONNECT_ATTEMPTS + 1
    /\ connFuel = 1
    /\ polls = EmptyBag
    /\ lastOp = "connect"
    /\ calls = EmptyBag
    /\ frames = EmptyBag
    /\ sentOn = {}
    /\ run = NoRun
    /\ prevDesired = {}
    /\ opened = FALSE
    /\ attempts = MAX_RECONNECT_ATTEMPTS + 1
    /\ failures = MAX_RECONNECT_ATTEMPTS
    /\ history = {}
    /\ pollCap = MaxPolls
    /\ msgFuel = 0
    /\ msgSeq = 0
    /\ lastEvent = NoEvent
    /\ lastActive = FALSE
    /\ handlers = {}
    /\ orderbook = [t \in Tokens |-> NoHash(NoOb)]
    /\ price = [t \in Tokens |-> NoHash(NoPr)]
    /\ trades = EmptyLists
    /\ untrimmed = [t \in Tokens |-> 0]
    /\ pushLog = [t \in Tokens |-> <<>>]
    /\ faulted = FALSE

\* Reconciliation with the history of each poll's start; one socket.
InitDiff ==
    /\ InitCommon
    /\ connFuel = 1
    /\ msgFuel = 0
    /\ history = {"start"}
    /\ pollCap = MaxPolls
    /\ trades = EmptyLists

\* Inbound frames of every kind while the active set is reconciled; one socket.
InitFeed ==
    /\ InitCommon
    /\ connFuel = 1
    /\ msgFuel = MaxFeedMsgs
    /\ history = {}
    /\ pollCap = 1
    /\ trades = EmptyLists

\* Trade frames, on lists an earlier run of the process has filled.
InitTrades ==
    /\ InitCommon
    /\ control = {"A"}
    /\ connFuel = 1
    /\ msgFuel = MaxTrades
    /\ history = {}
    /\ pollCap = 1
    /\ \E n \in {0, TRIM_STOP, TRIM_STOP + 1} :
           trades = [t \in Tokens |-> IF t = "A" THEN [i \in 1..n |-> OldEntry] ELSE <<>>]

\* Book and price_change frames of one token.
InitBook ==
    /\ InitCommon
    /\ control = {"A"}
    /\ connFuel = 1
    /\ msgFuel = MaxBookMsgs
    /\ history = {}
    /\ pollCap = 1
    /\ trades = EmptyLists

\* The frames each specification draws from.
BidSides == {<<>>, Levels(4000, TOP_LEVELS + MaxExtra)}
AskSides == {<<>>, Levels(4001, 1)}

\* Frames of every kind for token B, and frames that carry no token.
FeedEvents ==
    {Frame(type, t, IF type = "book" THEN Levels(4000, 1) ELSE <<>>,
           IF type = "book" THEN Levels(4200, 1) ELSE <<>>,
           IF type = "book" THEN NoNum ELSE 4100) :
        type \in {"book", "last_trade_price", "price_change"}, t \in {"B", ""}}
    \cup {Frame("tick_size_change", "A", <<>>, <<>>, 4100),
          Frame("unparseable", "", <<>>, <<>>, NoNum)}

TradeEvents == {Frame("last_trade_price", t, <<>>, <<>>, 4100) : t \in Tokens}

\* Frames that do not parse, frames with an unknown tag or with none (the
\* tag is ""), a price_change frame and a book frame.
DiscardEvents ==
    {Frame("unparseable", "", <<>>, <<>>, NoNum),
     Frame("tick_size_change", "A", <<>>, <<>>, 4100),
     Frame("", "A", <<>>, <<>>, 4100),
     Frame("price_change", "A", <<>>, <<>>, 4100),
     Frame("book", "A", Levels(4000, 1), Levels(4200, 1), NoNum)}

\* The two writers of price:{token}: a book frame and a price_change frame.
QuoteEvents ==
    {Frame("book", "A", Levels(4000, 1), Levels(4200, 1), NoNum),
     Frame("price_change", "A", <<>>, <<>>, 4300)}

BookEvents ==
    {Frame("book", "A", b, a, NoNum) : b \in BidSides, a \in AskSides}
    \cup {Frame("price_change", "A", <<>>, <<>>, p) : p \in {4000, NoNum}}

\* ------------------------------------------------------------ StoreClient
\* redisSMembers: what the await yields.  "ok": the response carries result;
\* "noresult": a response without result (data.result || []); "throw": the
\* fetch or res.json() rejected.
ReadOutcomes == {"ok", "noresult", "throw"}

redisSMembers(outcome) == IF outcome = "ok" THEN control ELSE {}

\* ------------------------------------------------------ ConnectionManager
\* connect(): a new socket replaces ws, and one more heartbeat interval is set.
connect ==
    /\ connFuel > 0
    /\ socks' = Append(socks, "CONNECTING")
    /\ ws' = Len(socks) + 1
    /\ heartbeats' = heartbeats + 1
    /\ connFuel' = connFuel - 1
    /\ sentOn' = {}
    /\ attempts' = attempts + 1

\* attemptReconnect with the cap tested by > instead of >=.
attemptReconnectOffByOne ==
    IF reconnectAttempts > MAX_RECONNECT_ATTEMPTS
    THEN /\ mainPc' = "exited"
         /\ UNCHANGED <<reconnectAttempts, timeouts>>
    ELSE /\ reconnectAttempts' = reconnectAttempts + 1
         /\ timeouts' = timeouts + 1
         /\ UNCHANGED mainPc

\* attemptReconnect(): exit at the cap, else count and schedule connect.
attemptReconnect ==
    IF reconnectAttempts >= MAX_RECONNECT_ATTEMPTS
    THEN /\ mainPc' = "exited"
         /\ UNCHANGED <<reconnectAttempts, timeouts>>
    ELSE /\ reconnectAttempts' = reconnectAttempts + 1
         /\ timeouts' = timeouts + 1
         /\ UNCHANGED mainPc

\* main(): the continuation after await loadSubscriptions().
Main(outcome) ==
    /\ mainPc = "loading"
    /\ subscriptions' = IF outcome = "throw" THEN subscriptions
                        ELSE redisSMembers(outcome)
    /\ connect
    /\ mainPc' = "running"
    /\ lastOp' = "main"
    /\ calls' = EmptyBag
    /\ frames' = EmptyBag
    /\ UNCHANGED <<feedVars, control, polls, reconnectAttempts, timeouts, run, prevDesired,
                   opened, failures>>

\* A delayed connect that stays scheduled after it has run.
TimerConnectRepeats ==
    /\ mainPc = "running"
    /\ timeouts > 0
    /\ timeouts' = timeouts
    /\ connect
    /\ lastOp' = "connect"
    /\ calls' = EmptyBag
    /\ frames' = EmptyBag
    /\ UNCHANGED <<feedVars, mainPc, control, subscriptions, polls, reconnectAttempts, run,
                   prevDesired, opened, failures>>

\* The setTimeout(connect, RECONNECT_DELAY) callback.
TimerConnect ==
    /\ mainPc = "running"
    /\ timeouts > 0
    /\ timeouts' = timeouts - 1
    /\ connect
    /\ lastOp' = "connect"
    /\ calls' = EmptyBag
    /\ frames' = EmptyBag
    /\ UNCHANGED <<feedVars, mainPc, control, subscriptions, polls, reconnectAttempts, run,
                   prevDesired, opened, failures>>

\* ws.on('open') without the reset of the counter.
OnOpenNoReset ==
    /\ mainPc = "running"
    /\ ws # 0
    /\ socks[ws] = "CONNECTING"
    /\ socks' = [socks EXCEPT ![ws] = "OPEN"]
    /\ frames' = SubscribeAll(subscriptions, ws, socks')
    /\ calls' = SetToBag(subscriptions)
    /\ sentOn' = FrameTokens(frames')
    /\ lastOp' = "open"
    /\ opened' = TRUE
    /\ attempts' = 0
    /\ failures' = 0
    /\ UNCHANGED <<feedVars, mainPc, control, subscriptions, polls, ws, timeouts, heartbeats,
                   connFuel, run, prevDesired, reconnectAttempts>>

\* ws.on('open') without the forEach that subscribes.
OnOpenNoResubscribe ==
    /\ mainPc = "running"
    /\ ws # 0
    /\ socks[ws] = "CONNECTING"
    /\ socks' = [socks EXCEPT ![ws] = "OPEN"]
    /\ reconnectAttempts' = 0
    /\ frames' = EmptyBag
    /\ calls' = EmptyBag
    /\ sentOn' = {}
    /\ lastOp' = "open"
    /\ opened' = TRUE
    /\ attempts' = 0
    /\ failures' = 0
    /\ UNCHANGED <<feedVars, mainPc, control, subscriptions, polls, ws, timeouts, heartbeats,
                   connFuel, run, prevDesired>>

\* ws.on('open')
OnOpen ==
    /\ mainPc = "running"
    /\ ws # 0
    /\ socks[ws] = "CONNECTING"
    /\ socks' = [socks EXCEPT ![ws] = "OPEN"]
    /\ reconnectAttempts' = 0
    /\ frames' = SubscribeAll(subscriptions, ws, socks')
    /\ calls' = SetToBag(subscriptions)
    /\ sentOn' = FrameTokens(frames')
    /\ lastOp' = "open"
    /\ opened' = TRUE
    /\ attempts' = 0
    /\ failures' = 0
    /\ UNCHANGED <<feedVars, mainPc, control, subscriptions, polls, ws, timeouts, heartbeats,
                   connFuel, run, prevDesired>>

\* ws.on('error') that reconnects as ws.on('close') does.
OnErrorReconnects ==
    /\ mainPc = "running"
    /\ ws # 0
    /\ socks[ws] \in {"CONNECTING", "OPEN"}
    /\ socks' = [socks EXCEPT ![ws] = "CLOSING"]
    /\ attemptReconnect
    /\ lastOp' = "error"
    /\ calls' = EmptyBag
    /\ frames' = EmptyBag
    /\ UNCHANGED <<feedVars, control, subscriptions, polls, ws, heartbeats, connFuel,
                   sentOn, run, prevDesired, opened, attempts, failures>>

\* ws.on('error'): logs.  The socket library emits error while the handshake
\* or the open socket fails, and emits close after it.
OnError ==
    /\ mainPc = "running"
    /\ ws # 0
    /\ socks[ws] \in {"CONNECTING", "OPEN"}
    /\ socks' = [socks EXCEPT ![ws] = "CLOSING"]
    /\ lastOp' = "error"
    /\ calls' = EmptyBag
    /\ frames' = EmptyBag
    /\ UNCHANGED <<feedVars, mainPc, control, subscriptions, polls, ws, reconnectAttempts,
                   timeouts, heartbeats, connFuel, sentOn, run, prevDesired,
                   opened, attempts, failures>>

\* ws.on('close')
OnClose ==
    /\ mainPc = "running"
    /\ ws # 0
    /\ socks[ws] \in {"CONNECTING", "OPEN", "CLOSING"}
    /\ socks' = [socks EXCEPT ![ws] = "CLOSED"]
    /\ attemptReconnect
    /\ failures' = IF attempts = 0 THEN failures ELSE failures + 1
    /\ lastOp' = "close"
    /\ calls' = EmptyBag
    /\ frames' = EmptyBag
    /\ UNCHANGED <<feedVars, control, subscriptions, polls, ws, heartbeats, connFuel, sentOn,
                   run, prevDesired, opened, attempts>>

\* One heartbeat setInterval callback.
Heartbeat ==
    /\ mainPc = "running"
    /\ heartbeats > 0
    /\ frames' = IF IsOpen(ws, socks) THEN One(PingFrame) ELSE EmptyBag
    /\ lastOp' = "heartbeat"
    /\ calls' = EmptyBag
    /\ UNCHANGED <<feedVars, mainPc, control, subscriptions, polls, connVars, sentOn, run,
                   prevDesired, opened, attempts, failures>>

\* ------------------------------------------------- SubscriptionReconciler
\* The first loop without its test of subscriptions.has(tokenId).
RECURSIVE AddLoopNoTest(_, _, _, _)
AddLoopNoTest(todo, acc, w, ss) ==
    IF todo = {} THEN acc
    ELSE LET t == CHOOSE x \in todo : TRUE
         IN  AddLoopNoTest(todo \ {t},
                           [subs   |-> acc.subs \cup {t},
                            calls  |-> acc.calls (+) One(t),
                            frames |-> acc.frames (+) subscribe(t, w, ss)],
                           w, ss)

\* for (const tokenId of newSet) if (!subscriptions.has(tokenId)) { add; subscribe }
RECURSIVE AddLoop(_, _, _, _)
AddLoop(todo, acc, w, ss) ==
    IF todo = {} THEN acc
    ELSE LET t == CHOOSE x \in todo : TRUE
         IN  IF t \notin acc.subs
             THEN AddLoop(todo \ {t},
                          [subs   |-> acc.subs \cup {t},
                           calls  |-> acc.calls (+) One(t),
                           frames |-> acc.frames (+) subscribe(t, w, ss)],
                          w, ss)
             ELSE AddLoop(todo \ {t}, acc, w, ss)

\* The second loop ending at its first delete.
DeleteLoopOnce(todo, newSet, subs) ==
    IF subs \subseteq newSet THEN subs
    ELSE subs \ {CHOOSE x \in subs : x \notin newSet}

\* A second loop that deletes nothing.
DeleteLoopNone(todo, newSet, subs) == subs

\* for (const tokenId of subscriptions) if (!newSet.has(tokenId)) delete
RECURSIVE DeleteLoop(_, _, _)
DeleteLoop(todo, newSet, subs) ==
    IF todo = {} THEN subs
    ELSE LET t == CHOOSE x \in todo : TRUE
         IN  IF t \notin newSet
             THEN DeleteLoop(todo \ {t}, newSet, subs \ {t})
             ELSE DeleteLoop(todo \ {t}, newSet, subs)

\* A diff that sends an unsubscribe frame for each token it deletes.
DiffUnsubscribes(subs, newSet, w, ss) ==
    LET a == AddLoop(newSet, [subs |-> subs, calls |-> EmptyBag, frames |-> EmptyBag],
                     w, ss)
        gone == {t \in a.subs : t \notin newSet}
    IN  [subs   |-> DeleteLoop(a.subs, newSet, a.subs),
         calls  |-> a.calls,
         frames |-> IF IsOpen(w, ss)
                    THEN a.frames (+) SetToBag({[type |-> "unsubscribe", assets_ids |-> <<t>>] :
                                                    t \in gone})
                    ELSE a.frames]

\* The body of checkSubscriptions after the await, on the set newSet.
Diff(subs, newSet, w, ss) ==
    LET a == AddLoop(newSet, [subs |-> subs, calls |-> EmptyBag, frames |-> EmptyBag],
                     w, ss)
    IN  [subs   |-> DeleteLoop(a.subs, newSet, a.subs),
         calls  |-> a.calls,
         frames |-> a.frames]

\* The setInterval(checkSubscriptions, 10000) callback up to its await: the
\* read is sent, and the store answers it from the control set it holds then.
CheckStart(outcome) ==
    /\ mainPc = "running"
    /\ BagCardinality(polls) < pollCap
    /\ polls' = polls (+) One([st    |-> IF outcome = "throw" \/ "read" \in history
                                         THEN outcome ELSE "ok",
                               val   |-> redisSMembers(outcome),
                               start |-> IF "start" \in history /\ outcome # "throw"
                                         THEN subscriptions ELSE {}])
    /\ UNCHANGED <<feedVars, mainPc, control, subscriptions, connVars, histVars>>

\* checkSubscriptions after the await: the diff, or the catch.
CheckResume(p) ==
    /\ mainPc = "running"
    /\ BagIn(p, polls)
    /\ polls' = polls (-) One(p)
    /\ IF p.st = "throw"
       THEN /\ lastOp' = "checkfail"
            /\ calls' = EmptyBag
            /\ frames' = EmptyBag
            /\ UNCHANGED <<subscriptions, sentOn, run, prevDesired>>
       ELSE LET d == Diff(subscriptions, p.val, ws, socks)
            IN  /\ subscriptions' = d.subs
                /\ calls' = d.calls
                /\ frames' = d.frames
                /\ sentOn' = sentOn \cup FrameTokens(d.frames)
                /\ lastOp' = "check"
                /\ run' = IF history # {}
                          THEN [done    |-> TRUE,
                                read    |-> p.st,
                                desired |-> p.val,
                                before  |-> subscriptions,
                                start   |-> p.start,
                                added   |-> d.subs \ subscriptions,
                                removed |-> subscriptions \ d.subs]
                          ELSE run
                /\ prevDesired' = IF "prev" \in history /\ run.done THEN {run.desired} ELSE {}
    /\ UNCHANGED <<feedVars, mainPc, control, connVars, opened, attempts, failures>>


\* ------------------------------------------------------ MessageTranslator
\* The dispatch without the test of subscriptions.has(tokenId) for book frames.
DispatchNoGate(msg, subs) ==
    IF msg.event_type = "book"
    THEN IF msg.asset_id # "" THEN "book" ELSE "none"
    ELSE IF msg.event_type = "last_trade_price"
    THEN IF msg.asset_id # "" /\ msg.asset_id \in subs THEN "last_trade_price" ELSE "none"
    ELSE IF msg.event_type = "price_change"
    THEN IF msg.asset_id # "" THEN "price_change" ELSE "none"
    ELSE "none"

\* A dispatch whose last branch takes every other tag.
DispatchDefault(msg, subs) ==
    IF msg.event_type = "book"
    THEN IF msg.asset_id # "" /\ msg.asset_id \in subs THEN "book" ELSE "none"
    ELSE IF msg.event_type = "last_trade_price"
    THEN IF msg.asset_id # "" /\ msg.asset_id \in subs THEN "last_trade_price" ELSE "none"
    ELSE IF msg.asset_id # "" THEN "price_change" ELSE "none"

\* The branch of ws.on('message') that frame msg takes: the handler it starts,
\* or "none" (JSON.parse threw, the tag is unknown, or the gate is closed).
Dispatch(msg, subs) ==
    IF msg.event_type = "book"
    THEN IF msg.asset_id # "" /\ msg.asset_id \in subs THEN "book" ELSE "none"
    ELSE IF msg.event_type = "last_trade_price"
    THEN IF msg.asset_id # "" /\ msg.asset_id \in subs THEN "last_trade_price" ELSE "none"
    ELSE IF msg.event_type = "price_change"
    THEN IF msg.asset_id # "" THEN "price_change" ELSE "none"
    ELSE "none"

\* ws.on('message') up to its first await: the branch is taken, the values to
\* persist are computed, and the first store request is sent.
Message(msg) ==
    /\ mainPc = "running"
    /\ IsOpen(ws, socks)
    /\ msgFuel > 0
    /\ msgFuel' = msgFuel - 1
    /\ msgSeq' = msgSeq + 1
    /\ lastEvent' = msg
    /\ lastActive' = (msg.asset_id \in subscriptions)
    /\ LET branch == Dispatch(msg, subscriptions)
           h(mid) == [id |-> msgSeq + 1, ev |-> msg, active |-> msg.asset_id \in subscriptions,
                      pc |-> 1,
                      ob |-> IF branch = "book" THEN saveOrderbook(msg, mid).ob ELSE NoOb,
                      pr |-> IF branch = "book" THEN saveOrderbook(msg, mid).pr
                             ELSE IF branch = "price_change" THEN priceChange(msg) ELSE NoPr,
                      entry |-> IF branch = "last_trade_price" THEN saveTrade(msg, msgSeq + 1)
                                ELSE NoEntry]
       IN  IF branch = "none" THEN handlers' = handlers
           ELSE IF branch = "book"
           THEN \E mid \in toFixed4(best(slice(msg.bids, TOP_LEVELS))
                                     + best(slice(msg.asks, TOP_LEVELS))) :
                    handlers' = handlers \cup {h(mid)}
           ELSE handlers' = handlers \cup {h(0)}
    /\ lastOp' = "message"
    /\ calls' = EmptyBag
    /\ frames' = EmptyBag
    /\ UNCHANGED <<mainPc, control, subscriptions, polls, connVars, sentOn, run,
                   prevDesired, opened, attempts, failures, history, pollCap, storeVars>>

\* What the store holds after the request of handler h at step op is applied.
Applied(h, op) ==
    LET t == h.ev.asset_id
    IN  [orderbook |->
             IF op = "hset_orderbook"
             THEN [orderbook EXCEPT ![t] = redisHSet(@, h.ob, h)]
             ELSE IF op = "expire_orderbook"
             THEN [orderbook EXCEPT ![t] = redisExpire(@, TTL_SECONDS)]
             ELSE orderbook,
         price |->
             IF op = "hset_price"
             THEN [price EXCEPT ![t] = redisHSet(@, h.pr, h)]
             ELSE IF op = "expire_price"
             THEN [price EXCEPT ![t] = redisExpire(@, TTL_SECONDS)]
             ELSE price,
         trades |->
             IF op = "lpush"
             THEN [trades EXCEPT ![t] = redisLPush(@, h.entry)]
             ELSE IF op = "ltrim"
             THEN [trades EXCEPT ![t] = redisLTrim(@, 0, TRIM_STOP)]
             ELSE trades,
         untrimmed |->
             IF op = "lpush" THEN [untrimmed EXCEPT ![t] = @ + 1]
             ELSE IF op = "ltrim" THEN [untrimmed EXCEPT ![t] = 0]
             ELSE untrimmed,
         pushLog |->
             IF op = "lpush" THEN [pushLog EXCEPT ![t] = Append(@, h.entry)]
             ELSE pushLog]

\* A round trip whose failure is not caught: the rejection ends the process.
StoreOpSurfaces(h, applied, ok) ==
    /\ mainPc = "running"
    /\ h \in handlers
    /\ LET steps == Steps(h.ev.event_type)
           after == Applied(h, steps[h.pc])
       IN  /\ IF applied
              THEN /\ orderbook' = after.orderbook
                   /\ price' = after.price
                   /\ trades' = after.trades
                   /\ untrimmed' = after.untrimmed
                   /\ pushLog' = after.pushLog
              ELSE UNCHANGED <<orderbook, price, trades, untrimmed, pushLog>>
           /\ faulted' = (faulted \/ ~applied \/ ~ok)
           /\ handlers' = IF ok /\ h.pc < Len(steps)
                          THEN (handlers \ {h}) \cup {[h EXCEPT !.pc = @ + 1]}
                          ELSE handlers \ {h}
    /\ mainPc' = IF ok THEN mainPc ELSE "exited"
    /\ lastOp' = "store"
    /\ calls' = EmptyBag
    /\ frames' = EmptyBag
    /\ UNCHANGED <<control, subscriptions, polls, connVars, sentOn, run,
                   prevDesired, opened, attempts, failures, history, pollCap, msgFuel,
                   msgSeq, lastEvent, lastActive>>

\* One store round trip of handler h ends.  applied: the store executed the
\* request; ok: the await returned (res.json() resolved, whatever it carries).
\* On ok the handler sends its next request or finishes; otherwise the await
\* threw and the catch of ws.on('message') ends the handler.
StoreOp(h, applied, ok) ==
    /\ mainPc = "running"
    /\ h \in handlers
    /\ LET steps == Steps(h.ev.event_type)
           after == Applied(h, steps[h.pc])
       IN  /\ IF applied
              THEN /\ orderbook' = after.orderbook
                   /\ price' = after.price
                   /\ trades' = after.trades
                   /\ untrimmed' = after.untrimmed
                   /\ pushLog' = after.pushLog
              ELSE UNCHANGED <<orderbook, price, trades, untrimmed, pushLog>>
           /\ faulted' = (faulted \/ ~applied \/ ~ok)
           /\ handlers' = IF ok /\ h.pc < Len(steps)
                          THEN (handlers \ {h}) \cup {[h EXCEPT !.pc = @ + 1]}
                          ELSE handlers \ {h}
    /\ lastOp' = "store"
    /\ calls' = EmptyBag
    /\ frames' = EmptyBag
    /\ UNCHANGED <<mainPc, control, subscriptions, polls, connVars, sentOn, run,
                   prevDesired, opened, attempts, failures, history, pollCap, msgFuel,
                   msgSeq, lastEvent, lastActive>>

\* ------------------------------------------------------------ environment
\* Another client adds a token to, or removes it from, ws-subscriptions.
ControlChange(t) ==
    /\ control' = IF t \in control THEN control \ {t} ELSE control \cup {t}
    /\ UNCHANGED <<feedVars, mainPc, subscriptions, polls, connVars, histVars>>

\* A hash key with an expiry runs out of time.
KeyExpires(t) ==
    /\ \/ /\ orderbook[t].exists /\ orderbook[t].ttl > 0
          /\ orderbook' = [orderbook EXCEPT ![t] = NoHash(NoOb)]
          /\ UNCHANGED price
       \/ /\ price[t].exists /\ price[t].ttl > 0
          /\ price' = [price EXCEPT ![t] = NoHash(NoPr)]
          /\ UNCHANGED orderbook
    /\ UNCHANGED <<control, mainPc, subscriptions, polls, connVars, histVars, history, pollCap,
                   msgFuel, msgSeq, lastEvent, lastActive, handlers, trades, untrimmed,
                   pushLog, faulted>>

\* ----------------------------------------------------------- specifications
ConnNext ==
    \/ \E o \in ReadOutcomes : Main(o)
    \/ TimerConnect
    \/ OnOpen
    \/ OnError
    \/ OnClose
    \/ Heartbeat

Next ==
    \/ ConnNext
    \/ \E o \in ReadOutcomes : CheckStart(o)
    \/ \E p \in BagToSet(polls) : CheckResume(p)
    \/ \E t \in Tokens : ControlChange(t)

Spec == Init /\ [][Next]_vars

SpecConn == InitConn /\ [][ConnNext]_vars

ReconNext ==
    \/ \E o \in ReadOutcomes : Main(o)
    \/ OnOpen
    \/ \E o \in ReadOutcomes : CheckStart(o)
    \/ \E p \in BagToSet(polls) : CheckResume(p)
    \/ \E t \in Tokens : ControlChange(t)

SpecRecon == InitRecon /\ [][ReconNext]_vars

SpecRead == InitRead /\ [][ReconNext]_vars

\* The diff alone: the socket stays in its handshake, subscribe sends nothing.
DiffNext ==
    \/ \E o \in ReadOutcomes : Main(o)
    \/ \E o \in ReadOutcomes : CheckStart(o)
    \/ \E p \in BagToSet(polls) : CheckResume(p)
    \/ \E t \in Tokens : ControlChange(t)

SpecDiff == InitDiff /\ [][DiffNext]_vars

StoreNext == \E h \in handlers : \E applied \in BOOLEAN, ok \in BOOLEAN : StoreOp(h, applied, ok)

FeedNext ==
    \/ \E o \in ReadOutcomes : Main(o)
    \/ OnOpen
    \/ CheckStart("ok")
    \/ \E p \in BagToSet(polls) : CheckResume(p)
    \/ \E t \in Tokens : ControlChange(t)
    \/ \E msg \in FeedEvents : Message(msg)
    \/ StoreNext

SpecFeed == InitFeed /\ [][FeedNext]_vars

TradesNext ==
    \/ \E o \in ReadOutcomes : Main(o)
    \/ OnOpen
    \/ \E msg \in TradeEvents : Message(msg)
    \/ StoreNext

SpecTrades == InitTrades /\ [][TradesNext]_vars

BookNext ==
    \/ \E o \in ReadOutcomes : Main(o)
    \/ OnOpen
    \/ \E msg \in BookEvents : Message(msg)
    \/ StoreNext
    \/ \E t \in Tokens : KeyExpires(t)

SpecBook == InitBook /\ [][BookNext]_vars

\* The reads of checkSubscriptions that can be outstanding.
PollRecords == [st : ReadOutcomes, val : SUBSET Tokens, start : {{}}]

LiveNext ==
    \/ TimerConnect
    \/ OnOpen
    \/ OnClose
    \/ \E o \in {"ok", "throw"} : CheckStart(o)
    \/ \E p \in BagToSet(polls) : CheckResume(p)
    \/ \E t \in Tokens : ControlChange(t)

\* The setInterval(checkSubscriptions, 10000) timer keeps firing while the
\* process runs, and every read that was sent returns or throws.  A read that
\* returns carries the result here.
LiveFairness ==
    /\ WF_vars(\E o \in {"ok", "throw"} : CheckStart(o))
    /\ \A p \in PollRecords : WF_vars(CheckResume(p))

SpecLive == InitLive /\ [][LiveNext]_vars /\ LiveFairness

QuoteNext ==
    \/ \E o \in ReadOutcomes : Main(o)
    \/ OnOpen
    \/ \E msg \in QuoteEvents : Message(msg)
    \/ StoreNext
    \/ \E t \in Tokens : KeyExpires(t)

SpecQuote == InitBook /\ [][QuoteNext]_vars

DiscardNext ==
    \/ \E o \in ReadOutcomes : Main(o)
    \/ OnOpen
    \/ \E msg \in DiscardEvents : Message(msg)
    \/ StoreNext

SpecDiscard == InitBook /\ [][DiscardNext]_vars

\* ------------------------------------------------------------------ claims
\* Consecutive failed attempts after which the process exits: the close that
\* finds reconnectAttempts at the cap is that of the 10th reconnect, which is
\* the 11th attempt when the first attempt of the process failed too.
ExitAfter == IF opened THEN MAX_RECONNECT_ATTEMPTS ELSE MAX_RECONNECT_ATTEMPTS + 1

\* C1 as claimed: from startup or from the last open, the process has exited
\* once 10 attempts have failed in a row, and no 11th attempt is started.
C1_AsClaimed ==
    /\ failures = MAX_RECONNECT_ATTEMPTS => mainPc = "exited"
    /\ attempts <= MAX_RECONNECT_ATTEMPTS

C1_CapInv ==
    /\ attempts <= ExitAfter
    /\ failures <= ExitAfter
    /\ mainPc = "exited" <=> failures = ExitAfter
    /\ reconnectAttempts <= MAX_RECONNECT_ATTEMPTS

\* C1: at most 10 reconnects follow startup or an open.  After an open the
\* process exits at the close of the 10th failed attempt in a row and starts no
\* 11th; from startup it exits at the close of the 11th (the first attempt
\* and 10 reconnects) and starts no 12th.  Once it has exited, the process
\* takes no further step: no connect, subscribe, ping or store request.
C1_ReconnectCap ==
    /\ []C1_CapInv
    /\ [][mainPc = "exited" => UNCHANGED procVars]_vars

C1_Witness == mainPc = "exited" /\ ~opened /\ attempts = MAX_RECONNECT_ATTEMPTS + 1

C10_ClosedOrFailed == ws # 0 /\ socks[ws] \in {"CLOSED", "CLOSING"}

\* C10 as claimed: after a close and after an error the process has exited or
\* holds one pending connect, and while it runs with its socket closed or
\* failed a connect is pending.
C10_AsClaimed ==
    /\ lastOp \in {"close", "error"} => mainPc = "exited" \/ timeouts = 1
    /\ mainPc = "running" /\ C10_ClosedOrFailed => timeouts = 1

C10_Inv ==
    /\ timeouts <= 1
    /\ lastOp = "close" => mainPc = "exited" \/ (timeouts = 1 /\ reconnectAttempts >= 1)
    /\ mainPc = "running" /\ ws # 0 /\ socks[ws] = "CLOSED" => timeouts = 1
    /\ ws # 0 /\ socks[ws] = "CLOSING" => timeouts = 0 /\ mainPc = "running"

C10_CloseStep == ws # 0 /\ ws' = ws /\ socks[ws] # "CLOSED" /\ socks'[ws] = "CLOSED"
C10_ErrorStep == ws # 0 /\ ws' = ws /\ socks[ws] # "CLOSING" /\ socks'[ws] = "CLOSING"

\* C10: every close event runs the bounded reconnect policy: it increments the
\* counter and schedules exactly one connect, or (counter at the maximum) exits;
\* while the process runs with a closed socket exactly one connect is pending.
\* An error event itself changes nothing: the socket is failed with no connect
\* pending until the close event that follows the error.
C10_CloseReconnects ==
    /\ []C10_Inv
    /\ [][C10_CloseStep =>
            \/ /\ reconnectAttempts = MAX_RECONNECT_ATTEMPTS
               /\ mainPc' = "exited"
               /\ UNCHANGED <<reconnectAttempts, timeouts>>
            \/ /\ reconnectAttempts < MAX_RECONNECT_ATTEMPTS
               /\ reconnectAttempts' = reconnectAttempts + 1
               /\ timeouts' = timeouts + 1
               /\ UNCHANGED mainPc]_vars
    /\ [][C10_ErrorStep => UNCHANGED <<mainPc, reconnectAttempts, timeouts>>]_vars

C10_Witness ==
    /\ lastOp = "close"
    /\ mainPc = "running"
    /\ socks[ws] = "CLOSED"
    /\ timeouts = 1
    /\ reconnectAttempts = MAX_RECONNECT_ATTEMPTS

\* One subscribe frame for each token of S, and no other frame.
OneFrameEach(S) == SetToBag({MarketFrame(t) : t \in S})

\* C2: after every open (the first and each reconnect) the counter is 0 and
\* the open handler has sent, on the socket that opened, exactly one subscribe
\* frame for every token of subscriptions and no other frame.
C2_OpenResubscribes ==
    lastOp = "open" =>
        /\ reconnectAttempts = 0
        /\ IsOpen(ws, socks)
        /\ frames = OneFrameEach(subscriptions)
        /\ calls = SetToBag(subscriptions)
        /\ sentOn = subscriptions

C2_Witness ==
    /\ lastOp = "open"
    /\ Len(socks) >= 2
    /\ subscriptions = Tokens
    /\ BagCardinality(frames) = Cardinality(Tokens)

\* C3: a checkSubscriptions diff on the desired set of the diff before it
\* leaves the active set as that diff left it, invokes subscribe for no token,
\* sends no frame, and adds and removes nothing.
C3_Idempotent ==
    lastOp = "check" /\ prevDesired = {run.desired} =>
        /\ subscriptions = run.before
        /\ calls = EmptyBag
        /\ frames = EmptyBag
        /\ run.added = {}
        /\ run.removed = {}

C3_Witness ==
    /\ lastOp = "check"
    /\ prevDesired = {run.desired}
    /\ run.desired = Tokens
    /\ IsOpen(ws, socks)

\* C4 as claimed: when a diff completes the active set is the set it read, and
\* subscribe was invoked once for each token that was desired and not active
\* before the run, that is when its timer fired, and for no other.
C4_AsClaimed ==
    lastOp = "check" =>
        /\ subscriptions = run.desired
        /\ calls = SetToBag(run.desired \ run.start)

\* C4: when a diff completes the active set is the set it read, and subscribe
\* was invoked once for each token that was desired and not active when the
\* read returned, and for no other.
C4_DiffApplied ==
    lastOp = "check" =>
        /\ subscriptions = run.desired
        /\ calls = SetToBag(run.desired \ run.before)
        /\ run.added = run.desired \ run.before
        /\ run.removed = run.before \ run.desired

C4_Witness ==
    /\ lastOp = "check"
    /\ run.added # {}
    /\ run.removed # {}
    /\ run.start # run.before

\* The trade and book handlers, which the message handler starts behind its
\* test of the active set.
C5_Gated(type) == type \in {"book", "last_trade_price"}

\* A frame is received in this step.
C5_Receipt == msgSeq' = msgSeq + 1

\* The keys of token t are left as they are.
C5_KeysUnchanged(t) ==
    /\ orderbook'[t] = orderbook[t]
    /\ price'[t] = price[t]
    /\ trades'[t] = trades[t]

C5_Inv ==
    /\ \A h \in handlers :
           /\ h.ev.asset_id \in Tokens
           /\ C5_Gated(h.ev.event_type) => h.active
    /\ \A t \in Tokens :
           price[t].exists /\ price[t].ev.event_type = "price_change" =>
               /\ price[t].ev.asset_id = t
               /\ LET p == IF price[t].ev.price = NoNum THEN 0 ELSE price[t].ev.price
                  IN  price[t].f = [bid |-> p, ask |-> p, mid |-> p, last |-> p]

\* C5: a book or last_trade_price frame whose token is not in the active set on
\* receipt starts no handler and changes no key, and every change of a key is
\* a store request of a handler whose frame passed that test or is a
\* price_change; a price_change frame with a token starts, whether the token is
\* active or not, the handler that sets the four fields of price:{token},
\* which hold the frame's price once the store has applied the request.
C5_GateOnReceipt ==
    /\ []C5_Inv
    /\ [][C5_Receipt /\ C5_Gated(lastEvent'.event_type) /\ ~lastActive' =>
              handlers' = handlers /\ UNCHANGED storeVars]_vars
    /\ [][<<orderbook, price, trades>>' # <<orderbook, price, trades>> =>
              \E h \in handlers \ handlers' :
                  /\ C5_Gated(h.ev.event_type) => h.active
                  /\ \A t \in Tokens \ {h.ev.asset_id} : C5_KeysUnchanged(t)]_vars
    /\ [][C5_Receipt /\ lastEvent'.event_type = "price_change" /\ lastEvent'.asset_id # "" =>
              \E h \in handlers' \ handlers :
                  /\ h.id = msgSeq'
                  /\ h.ev = lastEvent'
                  /\ h.active = lastActive'
                  /\ Steps(h.ev.event_type)[h.pc] = "hset_price"]_vars

\* A book frame for B arrives on the socket B was subscribed on, after a
\* reconciliation removed B.
C5_Witness ==
    /\ lastOp = "message"
    /\ lastEvent.event_type = "book"
    /\ lastEvent.asset_id = "B"
    /\ "B" \in sentOn
    /\ "B" \notin subscriptions
    /\ ~lastActive
    /\ handlers = {}

\* C6 as claimed: in every state of the store no trade list is longer than 100.
C6_AsClaimed == \A t \in Tokens : Len(trades[t]) <= TRIM_STOP + 1

\* C6: a trade list is never longer than 100 plus the pushes the store has
\* applied since the last trim it applied to the list; it holds at most 100
\* entries whenever no applied push awaits its trim.
C6_CappedAfterTrim ==
    \A t \in Tokens :
        /\ Len(trades[t]) <= TRIM_STOP + 1 + untrimmed[t]
        /\ untrimmed[t] <= Len(pushLog[t])

\* A push and its trim on a full list: the oldest entry is gone.
C6_Witness ==
    /\ Len(trades["A"]) = TRIM_STOP + 1
    /\ untrimmed["A"] = 0
    /\ trades["A"][1].timestamp > 0
    /\ trades["A"][TRIM_STOP + 1] = OldEntry

\* C7 as claimed: every trade list is in reverse order of receipt, the entry
\* of the frame received last among those pushed at its head.
C7_AsClaimed ==
    \A t \in Tokens :
        \A i \in 1..Len(trades[t]) : \A j \in 1..Len(trades[t]) :
            i < j => trades[t][i].timestamp >= trades[t][j].timestamp

\* C7: every trade list is in reverse order of the application of its pushes by
\* the store: its head is the entry pushed last, the entries below it are those
\* of the pushes before, newest first, and below them come the entries the
\* list held at startup.
C7_ReverseOfPushes ==
    \A t \in Tokens :
        LET n == Len(pushLog[t])
            k == Min(Len(trades[t]), n)
        IN  /\ \A i \in 1..k : trades[t][i] = pushLog[t][n - i + 1]
            /\ \A i \in (k + 1)..Len(trades[t]) : trades[t][i] = OldEntry

\* Two pushes applied in the order of receipt, on a list that is full.
C7_Witness ==
    /\ Len(pushLog["A"]) >= 2
    /\ Len(trades["A"]) = TRIM_STOP + 1
    /\ trades["A"][1].timestamp > trades["A"][2].timestamp
    /\ trades["A"][2].timestamp > 0

\* C8 as claimed: once every handler has completed, with no store request
\* lost, each orderbook and price key that exists carries a 60 second expiry.
C8_AsClaimed ==
    handlers = {} /\ ~faulted =>
        \A t \in Tokens :
            /\ orderbook[t].exists => orderbook[t].ttl = TTL_SECONDS
            /\ price[t].exists => price[t].ttl = TTL_SECONDS

\* The first level's price of one side of a frame, 0 for an empty side.
C9_First(levels) == IF levels = <<>> THEN 0 ELSE levels[1].price

\* The first min(10, n) levels of a side of n levels.
C9_Top(levels) ==
    [i \in 1..(IF Len(levels) < TOP_LEVELS THEN Len(levels) ELSE TOP_LEVELS) |-> levels[i]]

\* m is (bestBid + bestAsk) / 2 for bestBid + bestAsk = sum.
C9_Exact(m, sum) == 2 * m = sum

\* m is sum / 2 at four decimals: exact when it has four, else one of the two
\* neighbours.
C9_Rounded(m, sum) == 2 * m - sum \in {0 - 1, 0, 1}

\* What orderbook:{t} and price:{t} hold of the book frame that wrote them,
\* the stored mid being exact or rounded.
C9_Stored(t, exact) ==
    LET Mid(m, sum) == IF exact THEN C9_Exact(m, sum) ELSE C9_Rounded(m, sum)
    IN
    /\ orderbook[t].exists /\ orderbook[t].ev.event_type = "book" =>
           LET e == orderbook[t].ev
               f == orderbook[t].f
           IN  /\ e.asset_id = t
               /\ f.bids = C9_Top(e.bids)
               /\ f.asks = C9_Top(e.asks)
               /\ f.spread = C9_First(e.asks) - C9_First(e.bids)
               /\ Mid(f.mid, C9_First(e.bids) + C9_First(e.asks))
    /\ price[t].exists /\ price[t].ev.event_type = "book" =>
           LET e == price[t].ev
               f == price[t].f
           IN  /\ e.asset_id = t
               /\ f.bid = C9_First(e.bids)
               /\ f.ask = C9_First(e.asks)
               /\ f.last = f.mid
               /\ Mid(f.mid, C9_First(e.bids) + C9_First(e.asks))
    /\ orderbook[t].exists /\ price[t].exists /\ orderbook[t].by = price[t].by =>
           orderbook[t].f.mid = price[t].f.mid

\* C9 as claimed: the stored mid is exactly (bestBid + bestAsk) / 2.
C9_AsClaimed == \A t \in Tokens : C9_Stored(t, TRUE)

\* C9: the stored bids and asks are the first min(10, n) levels of the frame's
\* sides, bid and ask are the first level's price or 0 for an empty side,
\* spread is ask - bid, mid is (bid + ask) / 2 rounded to four decimals, and
\* orderbook:{token}.mid is the price:{token}.mid written by the same frame.
C9_SnapshotFields == \A t \in Tokens : C9_Stored(t, FALSE)

\* A frame with more than ten bids whose mid has five decimals, written to
\* both keys.
C9_Witness ==
    /\ orderbook["A"].exists
    /\ price["A"].exists
    /\ orderbook["A"].by = price["A"].by
    /\ Len(orderbook["A"].ev.bids) > TOP_LEVELS
    /\ Len(orderbook["A"].f.bids) = TOP_LEVELS
    /\ (C9_First(orderbook["A"].ev.bids) + C9_First(orderbook["A"].ev.asks)) % 2 = 1

\* C11 as claimed: once connect has been called, exactly one heartbeat timer
\* is live, however many times the process has reconnected.
C11_AsClaimed == mainPc # "loading" => heartbeats = 1

C12_Inv ==
    /\ frames # EmptyBag => IsOpen(ws, socks)
    /\ FrameTokens(frames) \subseteq BagToSet(calls)

\* C12: a callback hands a frame to the socket only while the socket is open,
\* and every subscribe frame it sends is that of a subscribe call it made
\* itself: none is kept for later.  A callback that invokes subscribe while
\* the socket is absent, connecting, failed or closed sends nothing and
\* leaves the socket, the counter, the timers and the record of the frames
\* sent on the socket as they are.
C12_SendOnlyWhenOpen ==
    /\ []C12_Inv
    /\ [][calls' # EmptyBag /\ ~IsOpen(ws', socks') =>
              frames' = EmptyBag /\ UNCHANGED <<connVars, sentOn>>]_vars

\* A reconciliation adds a token while the socket is closed.
C12_Witness ==
    /\ lastOp = "check"
    /\ calls # EmptyBag
    /\ ws # 0
    /\ socks[ws] = "CLOSED"
    /\ frames = EmptyBag

\* A subscribe frame {type: market, assets_ids: [token]} of one token.
C13_IsSubscribe(f) ==
    /\ f.type = "market"
    /\ Len(f.assets_ids) = 1
    /\ f.assets_ids[1] \in Tokens

C13_Inv ==
    /\ \A f \in BagToSet(frames) : f = PingFrame \/ C13_IsSubscribe(f)
    /\ lastOp = "check" => \A f \in BagToSet(frames) :
                               C13_IsSubscribe(f) /\ f.assets_ids[1] \in subscriptions

\* C13: every frame sent is a ping or a subscribe frame of exactly one token;
\* a callback that removes tokens from the active set sends subscribe frames
\* for the tokens it adds and no frame of any kind for a token it removes.
C13_NoUnsubscribe ==
    /\ []C13_Inv
    /\ [][subscriptions \ subscriptions' # {} =>
              \A f \in BagToSet(frames') :
                  /\ C13_IsSubscribe(f)
                  /\ f.assets_ids[1] \in subscriptions' \ subscriptions]_vars

\* On an open socket B was subscribed on, a reconciliation has removed B and
\* the last one sent the frame of A.
C13_Witness ==
    /\ lastOp = "check"
    /\ IsOpen(ws, socks)
    /\ "B" \in sentOn
    /\ "B" \notin subscriptions
    /\ frames = One(MarketFrame("A"))

\* The tags no branch of the message handler takes.
C14_Discarded(type) == type \notin {"book", "last_trade_price", "price_change"}

\* C14: a frame that does not parse, or whose tag is unknown or missing,
\* starts no handler and changes neither the store, the socket, the counter,
\* the timers, the pending reads nor the active set, and the process runs on;
\* the price_change frame received next after it starts its handler.
C14_DiscardedSilently ==
    /\ [][C5_Receipt /\ C14_Discarded(lastEvent'.event_type) =>
              UNCHANGED <<handlers, storeVars, connVars, subscriptions, polls, mainPc,
                          control>>]_vars
    /\ [][C5_Receipt /\ msgSeq >= 1 /\ C14_Discarded(lastEvent.event_type)
              /\ lastEvent'.event_type = "price_change" =>
              \E h \in handlers' \ handlers : h.id = msgSeq' /\ h.ev = lastEvent']_vars

\* The second frame is being persisted and the first has left no trace.
C14_Witness ==
    /\ msgSeq = 2
    /\ "A" \in subscriptions
    /\ ~faulted
    /\ ~price["A"].exists
    /\ \E h \in handlers : handlers = {h} /\ h.id = 2 /\ h.pc = 1

\* A store round trip of some handler ends in this step.
C15_RoundTrip == handlers' # handlers /\ msgSeq' = msgSeq

\* C15: the end of a store round trip, failed or not, takes its handler to its
\* next request or ends it and never sends a request again; it changes
\* neither the process, the socket, the counter, the timers, the pending
\* reads nor the active set.  After a failure the trade frame of an active
\* token received next starts its handler as before.
C15_FailureIgnored ==
    /\ [][C15_RoundTrip =>
              /\ \E h \in handlers \ handlers' :
                     handlers' \subseteq (handlers \ {h}) \cup {[h EXCEPT !.pc = @ + 1]}
              /\ UNCHANGED <<mainPc, connVars, subscriptions, polls, control, msgFuel>>]_vars
    /\ [][C5_Receipt /\ faulted /\ lastEvent'.event_type = "last_trade_price" /\ lastActive' =>
              \E h \in handlers' \ handlers : h.id = msgSeq' /\ h.pc = 1]_vars

\* The push of the first trade failed and was not sent again; the second
\* trade is being persisted on the same socket.
C15_Witness ==
    /\ faulted
    /\ msgSeq = 2
    /\ pushLog["A"] = <<>>
    /\ IsOpen(ws, socks)
    /\ reconnectAttempts = 0
    /\ \E h \in handlers : handlers = {h} /\ h.id = 2 /\ h.pc = 1

\* C16: the store applies each HSET of price:{token} when it arrives, whatever
\* the key holds: after a round trip that applied a handler's HSET the key
\* holds that handler's fields, also when a frame received later has written
\* the key before.  So the key can end with the value of the earlier of two
\* frames (the witness).
C16_LastAppliedWins ==
    [][\A h \in handlers \ handlers' :
           Steps(h.ev.event_type)[h.pc] = "hset_price" /\ ~faulted' =>
               /\ price'[h.ev.asset_id].exists
               /\ price'[h.ev.asset_id].by = h.id
               /\ price'[h.ev.asset_id].f = h.pr]_vars

\* A book frame, then a price_change frame; both handlers have completed with
\* every request applied, and price:A holds what the book frame wrote.
C16_Witness ==
    /\ msgSeq = 2
    /\ lastEvent.event_type = "price_change"
    /\ handlers = {}
    /\ ~faulted
    /\ price["A"].exists
    /\ price["A"].by = 1
    /\ price["A"].ev.event_type = "book"
    /\ price["A"].f.mid = 4100

\* C17: while the current socket is open, a subscribe frame has been sent on
\* that socket for every token of the active set.
C17_Coverage == IsOpen(ws, socks) => subscriptions \subseteq sentOn

\* After a reconnect, a reconciliation adds B on the open socket that A was
\* resubscribed on.
C17_Witness ==
    /\ IsOpen(ws, socks)
    /\ Len(socks) >= 2
    /\ lastOp = "check"
    /\ frames = One(MarketFrame("B"))
    /\ subscriptions = Tokens
    /\ sentOn = Tokens

\* C18 as claimed: a run whose read threw, or returned a response that
\* carries no result, leaves the active set as it found it and sends no frame.
C18_AsClaimed ==
    /\ lastOp = "checkfail" => frames = EmptyBag /\ calls = EmptyBag
    /\ lastOp = "check" /\ run.read = "noresult" =>
           /\ subscriptions = run.before
           /\ frames = EmptyBag

\* The sockets created so far that are connecting or open.
C19_Live == {i \in 1..Len(socks) : socks[i] \in {"CONNECTING", "OPEN"}}

\* C19: the counter is between 0 and 10, at most one socket is connecting or
\* open, at most one delayed connect is pending, and one is pending only while
\* no socket is connecting or open.
C19_OneSocketOneTimer ==
    /\ reconnectAttempts \in 0..MAX_RECONNECT_ATTEMPTS
    /\ Cardinality(C19_Live) <= 1
    /\ C19_Live \subseteq {ws}
    /\ timeouts \in {0, 1}
    /\ timeouts = 1 => C19_Live = {}

\* The counter is at its maximum and the last reconnect is under way.
C19_Witness ==
    /\ reconnectAttempts = MAX_RECONNECT_ATTEMPTS
    /\ timeouts = 0
    /\ C19_Live = {ws}
    /\ Len(socks) > MAX_RECONNECT_ATTEMPTS

\* From this state on the control set is S and no failed read is outstanding.
C20_Stable(S) == control = S /\ \A p \in BagToSet(polls) : p.st = "ok"

\* C20 as claimed: if from some point on the control set stays S and every
\* read succeeds, the active set is eventually S for ever.
C20_AsClaimed ==
    \A S \in SUBSET Tokens : <>[]C20_Stable(S) => <>[](subscriptions = S)

\* C20: if from some point on the control set stays S and every read
\* succeeds, and the process does not exit, the active set is eventually S
\* for ever, whatever the socket does and however the runs overlap.
C20_Converges ==
    \A S \in SUBSET Tokens :
        <>[](C20_Stable(S) /\ mainPc # "exited") => <>[](subscriptions = S)

\* Two runs were outstanding together and the active set is the control set.
C20_Witness ==
    /\ lastOp = "check"
    /\ BagCardinality(polls) = 1
    /\ control = Tokens
    /\ subscriptions = Tokens
    /\ \A p \in BagToSet(polls) : p.st = "ok" /\ p.val # Tokens

====
